---- MODULE Spec2Model ----
(***************************************************************************)
(* A model of SignatureCollection (src/source/signature_database.py): the  *)
(* word extraction get_words, the quantisation max_contrast, the record     *)
(* builder make_record, ingestion (add_image, add_images), the candidate   *)
(* query find_word_matches and the distance ranking find_matches.          *)
(*                                                                         *)
(* Two specifications:                                                     *)
(*   SpecWords  get_words and max_contrast as pure functions of inputs      *)
(*              drawn from bounded sets;                                   *)
(*   Spec       one SignatureCollection object over a MongoDB collection.  *)
(***************************************************************************)
EXTENDS Integers, Sequences, FiniteSets, TLC

VARIABLES
    \* ---- SpecWords: one call of get_words, then max_contrast on its result
    w_array,        \* the array argument of get_words
    w_k,            \* the k argument
    w_N,            \* the N argument
    w_pc,           \* "call" | "returned" | "raised"
    w_raw,          \* the array get_words returned
    w_words,        \* the array max_contrast works on, in place
    w_applied,      \* how many times max_contrast was applied to w_words
    \* ---- Spec: the SignatureCollection object and its store
    store,          \* self.collection: the documents, in natural order
    indexes,        \* the secondary indexes of the collection (slot numbers)
    k,              \* self.k
    N,              \* self.N
    distance_cutoff,\* self.distance_cutoff, as a fraction <<num, den>>
    has_index_names,\* whether the attribute self.index_names exists
    index_names,    \* self.index_names, as the set of its slot numbers
    last,           \* the last call: its name, arguments and the error raised
    candidates,     \* t = list(curs) of the last find_matches
    result          \* what the last find_matches returned

wvars == <<w_array, w_k, w_N, w_pc, w_raw, w_words, w_applied>>
svars == <<store, indexes, k, N, distance_cutoff, has_index_names,
           index_names, last, candidates, result>>
vars == <<w_array, w_k, w_N, w_pc, w_raw, w_words, w_applied,
          store, indexes, k, N, distance_cutoff, has_index_names,
          index_names, last, candidates, result>>

(***************************************************************************)
(* Bounds.                                                                 *)
(***************************************************************************)
\* longest array handed to get_words
MaxL == 30
\* largest word length handed to get_words
MaxK == 3
\* largest word count handed to get_words
MaxN == 22
\* arrays up to this length are drawn with every combination of values
FullLen == 2
\* most documents the collection grows to without being dropped
MaxStore == 2
\* most documents the collection holds when the object is constructed
MaxPre == 1
\* largest insert_block_size
MaxBlock == 3
\* largest k a SignatureCollection is constructed with
MaxWordLen == 3
\* largest N a SignatureCollection is constructed with
MaxWords == 3

(***************************************************************************)
(* Small helpers.                                                          *)
(***************************************************************************)
RECURSIVE Pow2(_)
Pow2(n) == IF n = 0 THEN 1 ELSE 2 * Pow2(n - 1)

\* numpy's cast to dtype int8: two's complement wrap-around
Int8(x) == ((x + 128) % 256) - 128

Min(a, b) == IF a < b THEN a ELSE b

(***************************************************************************)
(* IEEE-754 binary64 arithmetic, as far as numpy.linspace needs it.  A      *)
(* positive number is held in fixed point, as an integer part and three     *)
(* fraction limbs of LimbBits bits each, so that no number wider than a     *)
(* machine word is ever formed: ip + f1/B + f2/B^2 + f3/B^3, B = 2^LimbBits.*)
(* A binary64 keeps SignificandBits significant bits.                      *)
(***************************************************************************)
SignificandBits == 53
LimbBits == 18
Limb == Pow2(LimbBits)

RECURSIVE BitLen(_)
BitLen(x) == IF x = 0 THEN 0 ELSE 1 + BitLen(x \div 2)

\* x (ip >= 1) rounded to SignificandBits significant bits, to nearest, ties
\* to even; sticky says that x has a non-zero part beyond its last limb
RoundNearestEven(x, sticky) ==
    LET drop == 3 * LimbBits - (SignificandBits - BitLen(x.ip))
        unit == Pow2(drop)
        low  == x.f3 % unit
        keep == x.f3 \div unit
        up   == \/ 2 * low > unit
                \/ 2 * low = unit /\ (sticky \/ keep % 2 = 1)
        g3   == (keep + (IF up THEN 1 ELSE 0)) * unit
        g2   == x.f2 + g3 \div Limb
        g1   == x.f1 + g2 \div Limb
    IN  [ip |-> x.ip + g1 \div Limb, f1 |-> g1 % Limb,
         f2 |-> g2 % Limb, f3 |-> g3 % Limb]

\* the binary64 nearest to n/d, for integers n >= d >= 1
Float64Div(n, d) ==
    LET r0 == n % d
        r1 == (r0 * Limb) % d
        r2 == (r1 * Limb) % d
        r3 == (r2 * Limb) % d
    IN  RoundNearestEven([ip |-> n \div d, f1 |-> (r0 * Limb) \div d,
                          f2 |-> (r1 * Limb) \div d, f3 |-> (r2 * Limb) \div d],
                         r3 # 0)

\* int(i * x) for an integer i >= 0 and a binary64 x >= 1: the product is
\* rounded to binary64 and then truncated, as astype('int') does
Float64MulTrunc(i, x) ==
    IF i = 0 THEN 0
    ELSE LET p3 == i * x.f3
             p2 == i * x.f2 + p3 \div Limb
             p1 == i * x.f1 + p2 \div Limb
         IN  RoundNearestEven([ip |-> i * x.ip + p1 \div Limb, f1 |-> p1 % Limb,
                               f2 |-> p2 % Limb, f3 |-> p3 % Limb], FALSE).ip

(***************************************************************************)
(* get_words and max_contrast (static methods).  An array is a sequence;    *)
(* Python's array[a:b] is SubSeq(array, a + 1, b).                         *)
(***************************************************************************)
\* np.linspace(0, L, n, endpoint=False).astype('int'): arange(n) * (L / n),
\* computed in binary64 and truncated
word_positions(L, n) ==
    [i \in 1..n |-> Float64MulTrunc(i - 1, Float64Div(L, n))]

\* the two input checks of get_words: which error it raises, if any
get_words_error_NoCountCheck(array, kk, nn) ==
    IF kk > Len(array) THEN "ValueError" ELSE "none"

get_words_error(array, kk, nn) ==
    IF kk > Len(array) THEN "ValueError"
    ELSE IF nn > Len(array) THEN "ValueError"
    ELSE "none"

\* temp = array[pos:].copy(); temp.resize(k): the tail, zero-filled to length kk
resize_tail(array, pos, kk) ==
    [j \in 1..kk |-> IF pos + j <= Len(array) THEN array[pos + j] ELSE 0]

\* the body of the loop of get_words: the word that starts at pos, as int8
word_at(array, pos, kk) ==
    IF pos + kk <= Len(array)
    THEN [j \in 1..kk |-> Int8(array[pos + j])]
    ELSE [j \in 1..kk |-> Int8(resize_tail(array, pos, kk)[j])]

\* get_words(array, k, N): the error raised and the words returned
get_words(array, kk, nn) ==
    LET err == get_words_error(array, kk, nn)
    IN  IF err # "none" THEN [err |-> err, words |-> <<>>]
        ELSE LET pos == word_positions(Len(array), nn)
             IN  [err   |-> "none",
                  words |-> [i \in 1..nn |-> word_at(array, pos[i], kk)]]

\* max_contrast with the second assignment forgotten
max_contrast_PositiveOnly(array) ==
    [i \in DOMAIN array |->
        [j \in DOMAIN array[i] |-> IF array[i][j] > 0 THEN 1 ELSE array[i][j]]]

\* max_contrast(array): array[array > 0] = 1; array[array < 0] = -1
max_contrast(array) ==
    [i \in DOMAIN array |->
        [j \in DOMAIN array[i] |->
            IF array[i][j] > 0 THEN 1
            ELSE IF array[i][j] < 0 THEN -1
            ELSE array[i][j]]]

(***************************************************************************)
(* SpecWords: get_words on inputs drawn from bounded sets, then             *)
(* max_contrast on the words it returned, as make_record calls them.        *)
(***************************************************************************)
\* the values of a signature (ImageSignature yields -2..2)
Values == {-2, -1, 0, 1, 2}

\* a signature whose neighbouring elements differ
Ramp(L, o) == [j \in 1..L |-> ((j + o) % 5) - 2]

ExampleSignature == <<2, -1, 0, 3, -4, 1, 0, 2>>

Arrays ==
    UNION {[1..L -> Values] : L \in 1..FullLen}
    \cup {Ramp(L, o) : L \in 1..MaxL, o \in 0..1}
    \cup {ExampleSignature}

InitSystemIdle ==
    /\ store = <<>>
    /\ indexes = {}
    /\ k = 0
    /\ N = 0
    /\ distance_cutoff = <<0, 1>>
    /\ has_index_names = FALSE
    /\ index_names = {}
    /\ last = <<>>
    /\ candidates = <<>>
    /\ result = <<>>

InitWords ==
    /\ w_array \in Arrays
    /\ w_k \in 0..MaxK
    /\ w_N \in 0..MaxN
    /\ w_pc = "call"
    /\ w_raw = <<>>
    /\ w_words = <<>>
    /\ w_applied = 0
    /\ InitSystemIdle

\* words = self.get_words(signature, self.k, self.N)
GetWords ==
    /\ w_pc = "call"
    /\ LET r == get_words(w_array, w_k, w_N)
       IN  /\ w_pc' = IF r.err = "none" THEN "returned" ELSE "raised"
           /\ w_raw' = r.words
           /\ w_words' = r.words
    /\ UNCHANGED <<w_array, w_k, w_N, w_applied>>
    /\ UNCHANGED svars

\* self.max_contrast(words), and once more on the same array
MaxContrast ==
    /\ w_pc = "returned"
    /\ w_applied < 2
    /\ w_words' = max_contrast(w_words)
    /\ w_applied' = w_applied + 1
    /\ UNCHANGED <<w_array, w_k, w_N, w_pc, w_raw>>
    /\ UNCHANGED svars

NextWords == GetWords \/ MaxContrast

SpecWords == InitWords /\ [][NextWords]_vars

(***************************************************************************)
(* Claims about get_words and max_contrast, under SpecWords.                *)
(***************************************************************************)
\* the word the specification asks for at start position p
ExpectedWord(array, p, kk) ==
    [j \in 1..kk |-> IF p + j <= Len(array) THEN array[p + j] ELSE 0]

\* C1: for 1 <= k <= L and 1 <= N <= L get_words returns exactly N words of
\* length k, word i (from 0) being the one that starts at floor(i*L/N):
\* signature[p : p+k] verbatim, or signature[p:] zero-padded to length k.
C1_WordsAtFloorPositions ==
    (w_pc = "returned" /\ w_k >= 1 /\ w_N >= 1) =>
        /\ Len(w_raw) = w_N
        /\ \A i \in 1..w_N :
              w_raw[i] = ExpectedWord(w_array, ((i - 1) * Len(w_array)) \div w_N, w_k)

\* C2: get_words fails whenever k > L and whenever N > L, returning no
\* words, and fails in no case where k <= L and N <= L.
C2_FailsExactlyOnOversize ==
    w_pc # "call" =>
        /\ (w_pc = "raised") = (w_k > Len(w_array) \/ w_N > Len(w_array))
        /\ (w_pc = "raised" => w_raw = <<>>)
        /\ (w_pc = "returned" => Len(w_raw) = w_N /\ \A i \in 1..w_N : Len(w_raw[i]) = w_k)

C2_Witness ==
    /\ w_pc = "raised"
    /\ w_k <= Len(w_array)
    /\ w_N > Len(w_array)

Sign(x) == IF x > 0 THEN 1 ELSE IF x < 0 THEN -1 ELSE 0

\* C3: max_contrast maps every element to its sign (positive to 1, negative
\* to -1, zero to 0), keeps the shape, and a second application changes
\* nothing.
C3_MaxContrastIsSign ==
    w_applied >= 1 =>
        /\ DOMAIN w_words = DOMAIN w_raw
        /\ \A i \in DOMAIN w_raw :
              /\ DOMAIN w_words[i] = DOMAIN w_raw[i]
              /\ \A j \in DOMAIN w_raw[i] :
                    /\ w_words[i][j] \in {-1, 0, 1}
                    /\ w_words[i][j] = Sign(w_raw[i][j])

C3_Witness ==
    /\ w_applied = 2
    /\ \E i \in DOMAIN w_raw : \E j \in DOMAIN w_raw[i] : w_raw[i][j] < -1
    /\ \E i \in DOMAIN w_raw : \E j \in DOMAIN w_raw[i] : w_raw[i][j] > 1
    /\ \E i \in DOMAIN w_raw : \E j \in DOMAIN w_raw[i] : w_raw[i][j] = 0

(***************************************************************************)
(* The SignatureCollection object.                                         *)
(*                                                                         *)
(* A document is [path, signature, words]: words[i + 1] is the field        *)
(* 'simple_word_i'.  index_names is held as the set of the slot numbers i:  *)
(* its order is that of a dict's keys and decides nothing.                 *)
(***************************************************************************)
Paths == {"a", "b", "z"}

\* self.gis.generate_signature(path): the external generator, deterministic;
\* every signature has the same length
generate_signature(path) ==
    CASE path = "a" -> <<-4, 0>>
      [] path = "b" -> <<-1, 3>>
      [] OTHER      -> <<0, 0>>

\* listdir(image_dir) joined with image_dir: a directory lists each of its
\* files once, in an order of its own
ListingOrder == <<"a", "b", "z">>

IsListing(d) ==
    /\ \A i, j \in 1..Len(d) : i < j =>
          \E m, n \in 1..Len(ListingOrder) :
              m < n /\ ListingOrder[m] = d[i] /\ ListingOrder[n] = d[j]

Directories ==
    {d \in UNION {[1..m -> Paths] : m \in 0..Len(ListingOrder)} : IsListing(d)}

\* make_record(path) of an object with word length kk and word count nn
build_record(kk, nn, path) ==
    LET signature == generate_signature(path)
        w == get_words(signature, kk, nn)
    IN  IF w.err # "none" THEN [err |-> w.err, rec |-> <<>>]
        ELSE [err |-> "none",
              rec |-> [path |-> path, signature |-> signature,
                       words |-> max_contrast(w.words)]]

\* make_record for every object and path of the model, computed once
RecordTable ==
    [kk \in 1..MaxWordLen, nn \in 1..MaxWords, path \in Paths |->
        build_record(kk, nn, path)]

make_record(kk, nn, path) == RecordTable[kk, nn, path]

\* the fields of a document whose name contains 'simple'
simple_fields(doc) == {i - 1 : i \in 1..Len(doc.words)}

\* [field for field in self.collection.find_one({}).keys()
\*        if field.find('simple') > -1]
discover_index_names(coll) == simple_fields(coll[1])

\* the $or query of find_word_matches, with only the first clause kept
matches_any_word_FirstNameOnly(doc, record, names) ==
    \E name \in names :
        /\ \A other \in names : name <= other
        /\ name \in simple_fields(doc)
        /\ doc.words[name + 1] = record.words[name + 1]

\* {'$or': [{name: record[name]} for name in self.index_names]}: whether the
\* store's find returns doc
matches_any_word(doc, record, names) ==
    \E name \in names :
        /\ name \in simple_fields(doc)
        /\ doc.words[name + 1] = record.words[name + 1]

\* find_word_matches(record): the error raised and the documents found
find_word_matches(record) ==
    IF ~has_index_names
    THEN [err |-> "AttributeError", docs |-> <<>>]
    ELSE IF \E name \in index_names : name \notin simple_fields(record)
    THEN [err |-> "KeyError", docs |-> <<>>]
    ELSE IF index_names = {}
    THEN [err |-> "OperationFailure", docs |-> <<>>]
    ELSE [err  |-> "none",
          docs |-> SelectSeq(store,
                       LAMBDA doc : matches_any_word(doc, record, index_names))]

RECURSIVE SumSquares(_)
SumSquares(v) == IF v = <<>> THEN 0 ELSE v[1] * v[1] + SumSquares(Tail(v))

\* normalized_distance with vec + b written for vec - b
normalized_distance_Sum(b, vec) ==
    LET b8   == [j \in DOMAIN b |-> Int8(b[j])]
        vec8 == [j \in DOMAIN vec |-> Int8(vec[j])]
    IN  [diff2 |-> SumSquares([j \in DOMAIN vec8 |-> Int8(vec8[j] + b8[j])]),
         vec2  |-> SumSquares(vec8),
         row2  |-> SumSquares(b8)]

\* normalized_distance for one row b of target_array, both arrays of dtype
\* int8: the pieces of ||vec - b|| / (||vec|| + ||b||), each norm by its square
normalized_distance(b, vec) ==
    LET b8   == [j \in DOMAIN b |-> Int8(b[j])]
        vec8 == [j \in DOMAIN vec |-> Int8(vec[j])]
    IN  [diff2 |-> SumSquares([j \in DOMAIN vec8 |-> Int8(vec8[j] - b8[j])]),
         vec2  |-> SumSquares(vec8),
         row2  |-> SumSquares(b8)]

\* sqrt(x) * den < num * (sqrt(y) + sqrt(z)), for naturals, without roots
RootsLess(x, y, z, num, den) ==
    LET lhs == x * den * den - num * num * (y + z)
    IN  \/ lhs < 0
        \/ lhs * lhs < 4 * num * num * num * num * y * z

\* sqrt(x) * den <= num * (sqrt(y) + sqrt(z))
RootsLessEq(x, y, z, num, den) ==
    LET lhs == x * den * den - num * num * (y + z)
    IN  \/ lhs <= 0
        \/ lhs * lhs <= 4 * num * num * num * num * y * z

\* w = d < self.distance_cutoff with <= written for <
below_cutoff_Inclusive(d, cutoff) ==
    /\ d.vec2 + d.row2 > 0
    /\ RootsLessEq(d.diff2, d.vec2, d.row2, cutoff[1], cutoff[2])

\* w = d < self.distance_cutoff: 0/0 is nan, and nan < cutoff is False
below_cutoff(d, cutoff) ==
    /\ d.vec2 + d.row2 > 0
    /\ RootsLess(d.diff2, d.vec2, d.row2, cutoff[1], cutoff[2])

NoCall == [op |-> "init", path |-> "", dir |-> <<>>, drop |-> FALSE, bs |-> 0,
           fail |-> -1, err |-> "none", raised_in |-> ""]

\* the documents a SignatureCollection with word length kk and word count nn
\* makes of the paths of d
records_of(kk, nn, d) == [i \in 1..Len(d) |-> make_record(kk, nn, d[i]).rec]

\* the collections a SignatureCollection may be constructed on: empty, or
\* filled and indexed by another SignatureCollection (of any valid k, N)
InitialStores ==
    {<<>>} \cup
    {records_of(k0, n0, d) :
        k0 \in 1..Len(generate_signature("a")),
        n0 \in 1..Len(generate_signature("a")),
        d \in {d \in Directories : 1 <= Len(d) /\ Len(d) <= MaxPre}}

Cutoffs == {<<0, 1>>, <<3, 5>>, <<1, 1>>}

InitWordsIdle ==
    /\ w_array = <<>>
    /\ w_k = 0
    /\ w_N = 0
    /\ w_pc = "idle"
    /\ w_raw = <<>>
    /\ w_words = <<>>
    /\ w_applied = 0

\* __init__(collection, k, N, distance_cutoff), its checks passed
Init ==
    /\ InitWordsIdle
    /\ store \in InitialStores
    /\ indexes = IF store = <<>> THEN {} ELSE simple_fields(store[1])
    /\ k \in 1..MaxWordLen
    /\ N \in 1..MaxWords
    /\ distance_cutoff \in Cutoffs
    /\ has_index_names = (Len(store) > 0)
    /\ index_names = IF Len(store) > 0 THEN discover_index_names(store) ELSE {}
    /\ last = NoCall
    /\ candidates = <<>>
    /\ result = <<>>

\* add_image(path); the store's insert may fail
add_image(path, fails) ==
    /\ Len(store) < MaxStore
    /\ \E r \in {make_record(k, N, path)} :
        /\ store' = IF r.err = "none" /\ ~fails THEN Append(store, r.rec) ELSE store
        /\ last' = [NoCall EXCEPT !.op = "add_image", !.path = path,
                       !.fail = IF fails /\ r.err = "none" THEN 0 ELSE -1,
                       !.err = IF r.err # "none" THEN r.err
                               ELSE IF fails THEN "StoreError" ELSE "none",
                       !.raised_in = IF r.err # "none" THEN "make_record"
                                     ELSE IF fails THEN "insert" ELSE ""]
        /\ candidates' = <<>>
        /\ result' = <<>>
        /\ UNCHANGED <<indexes, k, N, distance_cutoff, has_index_names, index_names>>
        /\ UNCHANGED wvars

\* range(0, len(image_paths), insert_block_size): how many blocks
block_count(m, bs) == (m + bs - 1) \div bs

\* image_paths[i : i + insert_block_size] for the j-th i (from 0)
block(d, bs, j) == SubSeq(d, j * bs + 1, Min((j + 1) * bs, Len(d)))

\* the first block (from 0) one of whose paths make_record fails on, or the
\* block count when there is none
first_bad_block(d, bs) ==
    LET bad == {j \in 0..(block_count(Len(d), bs) - 1) :
                   \E i \in (j * bs + 1)..Min((j + 1) * bs, Len(d)) :
                       make_record(k, N, d[i]).err # "none"}
    IN  IF bad = {} THEN block_count(Len(d), bs)
        ELSE CHOOSE j \in bad : \A j2 \in bad : j <= j2

\* the insert loop with a failed insert swallowed: the loop goes on with the
\* blocks after it
inserted_paths_GoesOn(d, bs, bad, fail, part) ==
    IF bad < block_count(Len(d), bs) /\ (fail < 0 \/ bad <= fail)
    THEN SubSeq(d, 1, bad * bs)
    ELSE IF fail >= 0
    THEN SubSeq(d, 1, fail * bs) \o SubSeq(block(d, bs, fail), 1, part)
         \o SubSeq(d, Min((fail + 1) * bs, Len(d)) + 1, Len(d))
    ELSE d

\* the insert loop stopping before a last block that is not full
inserted_paths_FullBlocksOnly(d, bs, bad, fail, part) ==
    IF bad < block_count(Len(d), bs) /\ (fail < 0 \/ bad <= fail)
    THEN SubSeq(d, 1, bad * bs)
    ELSE IF fail >= 0
    THEN SubSeq(d, 1, fail * bs) \o SubSeq(block(d, bs, fail), 1, part)
    ELSE SubSeq(d, 1, (Len(d) \div bs) * bs)

\* the insert loop of add_images over the listing d: the paths whose
\* documents went into the collection.  bad is the first block make_record
\* fails on, and the store's insert of block fail (none when -1) raises
\* after part of its documents went in
inserted_paths(d, bs, bad, fail, part) ==
    IF bad < block_count(Len(d), bs) /\ (fail < 0 \/ bad <= fail)
    THEN SubSeq(d, 1, bad * bs)
    ELSE IF fail >= 0
    THEN SubSeq(d, 1, fail * bs) \o SubSeq(block(d, bs, fail), 1, part)
    ELSE d

\* where the insert loop raises, if it does
insert_loop_raises(d, bs, bad, fail) ==
    IF bad < block_count(Len(d), bs) /\ (fail < 0 \/ bad <= fail)
    THEN "make_record"
    ELSE IF fail >= 0 THEN "insert"
    ELSE ""

\* the indexing that follows the loop: not reached when the loop raised;
\* find_one({}) is None on an empty collection, and None.keys() raises
indexing_raises(raised, coll) ==
    IF raised # "" THEN raised
    ELSE IF coll = <<>> THEN "find_one" ELSE ""

error_class(raised_in) ==
    CASE raised_in = "" -> "none"
      [] raised_in = "make_record" -> "ValueError"
      [] raised_in = "insert" -> "StoreError"
      [] raised_in = "find_one" -> "AttributeError"

\* add_images(image_dir, drop_collection, insert_block_size=bs)
add_images(d, drop, bs, fail, part) ==
    /\ drop \/ Len(store) + Len(d) <= MaxStore
    /\ fail < block_count(Len(d), bs)
    /\ part <= (IF fail >= 0 THEN Len(block(d, bs, fail)) ELSE 0)
    /\ \E bad \in {first_bad_block(d, bs)} :
       \E raised \in {insert_loop_raises(d, bs, bad, fail)} :
       \E coll \in {(IF drop THEN <<>> ELSE store)
                    \o records_of(k, N, inserted_paths(d, bs, bad, fail, part))} :
       \E where \in {indexing_raises(raised, coll)} :
        /\ store' = coll
        /\ has_index_names' = (has_index_names \/ where = "")
        /\ index_names' = IF where = "" THEN discover_index_names(coll)
                          ELSE index_names
        /\ indexes' = (IF drop THEN {} ELSE indexes)
                      \cup (IF where = "" THEN discover_index_names(coll) ELSE {})
        /\ last' = [NoCall EXCEPT !.op = "add_images", !.dir = d, !.drop = drop,
                       !.bs = bs,
                       !.fail = IF where = "insert" THEN fail ELSE -1,
                       !.err = error_class(where), !.raised_in = where]
        /\ candidates' = <<>>
        /\ result' = <<>>
        /\ UNCHANGED <<k, N, distance_cutoff>>
        /\ UNCHANGED wvars

\* zip(d[w], paths[w]) over the candidates t
ranked(t, vec, cutoff) ==
    LET kept == SelectSeq(t, LAMBDA doc :
                    below_cutoff(normalized_distance(doc.signature, vec), cutoff))
    IN  [i \in 1..Len(kept) |->
            <<normalized_distance(kept[i].signature, vec), kept[i].path>>]

\* find_matches(path)
find_matches(path) ==
    \E r \in {make_record(k, N, path)} :
    \E c \in {IF r.err = "none" THEN find_word_matches(r.rec)
              ELSE [err |-> r.err, docs |-> <<>>]} :
    \* vec - target_array cannot be broadcast when no document was found
    \E where \in {IF r.err # "none" THEN "make_record"
                  ELSE IF c.err # "none" THEN "find_word_matches"
                  ELSE IF c.docs = <<>> THEN "normalized_distance" ELSE ""} :
        /\ last' = [NoCall EXCEPT !.op = "find_matches", !.path = path,
                       !.err = IF where = "normalized_distance" THEN "ValueError"
                               ELSE c.err,
                       !.raised_in = where]
        /\ candidates' = c.docs
        /\ result' = IF where = ""
                     THEN ranked(c.docs, r.rec.signature, distance_cutoff)
                     ELSE <<>>
        /\ UNCHANGED <<store, indexes, k, N, distance_cutoff, has_index_names,
                       index_names>>
        /\ UNCHANGED wvars

AddImage == \E path \in Paths, fails \in BOOLEAN : add_image(path, fails)

AddImages ==
    \E d \in Directories, drop \in BOOLEAN, bs \in 1..MaxBlock :
        \E fail \in -1..(Len(d) - 1), part \in 0..Len(d) :
            add_images(d, drop, bs, fail, part)

FindMatches == \E path \in Paths : find_matches(path)

Next == AddImage \/ AddImages \/ FindMatches

Spec == Init /\ [][Next]_vars

(***************************************************************************)
(* Claims about the SignatureCollection object, under Spec.                 *)
(***************************************************************************)
\* the record find_matches made of its path
QueryRecord == make_record(k, N, last.path).rec

\* doc has a word slot i, 0 <= i < N, whose word is the query's word of slot i
SharesSlot(doc, q) ==
    \E i \in 0..(N - 1) :
        /\ i + 1 \in DOMAIN doc.words
        /\ i + 1 \in DOMAIN q.words
        /\ doc.words[i + 1] = q.words[i + 1]

\* the image of path is in the collection, as this object ingests it
Ingested(path) ==
    /\ make_record(k, N, path).err = "none"
    /\ \E i \in 1..Len(store) : store[i] = make_record(k, N, path).rec

NonZero(v) == \E j \in DOMAIN v : v[j] # 0

\* the result holds the pair (0.0, path)
HasZeroDistancePair(path) ==
    \E n \in 1..Len(result) :
        /\ result[n][2] = path
        /\ result[n][1].diff2 = 0
        /\ result[n][1].vec2 + result[n][1].row2 > 0

\* C4 as stated: after an image with a non-zero signature was ingested (by
\* add_images or add_image) and with distance_cutoff > 0, find_matches on the
\* same path completes without error and its result contains (0.0, path).
C4_SameImageFound ==
    (/\ last.op = "find_matches"
     /\ Ingested(last.path)
     /\ NonZero(generate_signature(last.path))
     /\ distance_cutoff[1] > 0)
    => (last.err = "none" /\ HasZeroDistancePair(last.path))

\* C4 as amended: the same, provided index_names is set and every name in it
\* is a word slot of the query record.
C4_SameImageFoundOnceIndexed ==
    (/\ last.op = "find_matches"
     /\ Ingested(last.path)
     /\ NonZero(generate_signature(last.path))
     /\ distance_cutoff[1] > 0
     /\ has_index_names
     /\ index_names \subseteq 0..(N - 1))
    => (last.err = "none" /\ HasZeroDistancePair(last.path))

C4_Witness ==
    /\ last.op = "find_matches"
    /\ Ingested(last.path)
    /\ NonZero(generate_signature(last.path))
    /\ distance_cutoff[1] > 0
    /\ has_index_names
    /\ last.err = "none"
    /\ HasZeroDistancePair(last.path)
    /\ Len(store) > 1

\* every document of the collection was built with this object's k and N
UniformStore ==
    \A i \in 1..Len(store) :
        /\ Len(store[i].words) = N
        /\ \A s \in 1..N : Len(store[i].words[s]) = k

\* find_word_matches returned in the last call of find_matches
WordMatchesReturned ==
    /\ last.op = "find_matches"
    /\ last.raised_in \in {"", "normalized_distance"}

\* C5: every record find_word_matches returns shares a positionally aligned
\* word slot with the query record; and when all records were built with the
\* same k and N and index_names holds the N slot names, as add_images leaves
\* it, every stored record that shares such a slot is returned.
C5_CandidatesShareAWord ==
    /\ WordMatchesReturned =>
          \A i \in 1..Len(candidates) : SharesSlot(candidates[i], QueryRecord)
    /\ (/\ last.op = "find_matches"
        /\ last.raised_in # "make_record"
        /\ UniformStore
        /\ has_index_names
        /\ index_names = 0..(N - 1))
       => /\ WordMatchesReturned
          /\ candidates = SelectSeq(store, LAMBDA doc : SharesSlot(doc, QueryRecord))

C5_Witness ==
    /\ WordMatchesReturned
    /\ UniformStore
    /\ index_names = 0..(N - 1)
    /\ N > 1
    /\ \E i \in 1..Len(candidates) :
          /\ candidates[i].words[1] # QueryRecord.words[1]
          /\ SharesSlot(candidates[i], QueryRecord)
    /\ \E i \in 1..Len(store) : ~SharesSlot(store[i], QueryRecord)

\* C6: with zero indexed fields (the object opened on an empty store, before
\* any ingestion) find_word_matches, and so find_matches, returns an empty
\* result and raises nothing.
C6_NoIndexedFieldsGivesEmptyResult ==
    (/\ last.op = "find_matches"
     /\ last.raised_in # "make_record"
     /\ (~has_index_names \/ index_names = {}))
    => (last.err = "none" /\ candidates = <<>> /\ result = <<>>)

\* the distance of doc to the query is below the cutoff, strictly
StrictlyWithinCutoff(doc, q) ==
    LET diff == [j \in DOMAIN q.signature |-> q.signature[j] - doc.signature[j]]
    IN  /\ SumSquares(q.signature) + SumSquares(doc.signature) > 0
        /\ RootsLess(SumSquares(diff), SumSquares(q.signature),
                     SumSquares(doc.signature),
                     distance_cutoff[1], distance_cutoff[2])

\* the distance of doc to the query is the cutoff exactly
ExactlyAtCutoff(doc, q) ==
    LET diff == [j \in DOMAIN q.signature |-> q.signature[j] - doc.signature[j]]
    IN  /\ SumSquares(q.signature) + SumSquares(doc.signature) > 0
        /\ ~StrictlyWithinCutoff(doc, q)
        /\ RootsLessEq(SumSquares(diff), SumSquares(q.signature),
                       SumSquares(doc.signature),
                       distance_cutoff[1], distance_cutoff[2])

C8_DropThenIngestHoldsDirectory ==
    (/\ last.op = "add_images"
     /\ last.drop
     /\ last.err = "none"
     /\ Len(last.dir) >= 1)
    => /\ Len(store) = Len(last.dir)
       /\ {store[i].path : i \in 1..Len(store)} = {last.dir[i] : i \in 1..Len(last.dir)}

C8_Witness ==
    /\ last.op = "add_images"
    /\ last.drop
    /\ last.err = "none"
    /\ Len(last.dir) = 3
    /\ last.bs = 2
    /\ Len(store) = 3

\* C9: index-field rediscovery tolerates an empty collection at both call
\* sites: opening the object on a store with no records, and finishing
\* add_images with the store still empty, complete without failing and leave
\* index_names defined and empty, with no secondary index created.
C9_RediscoveryToleratesEmpty ==
    /\ (last.op = "init" /\ store = <<>>)
       => (has_index_names /\ index_names = {} /\ indexes = {})
    /\ (last.op = "add_images" /\ store = <<>>
            /\ last.raised_in \notin {"make_record", "insert"})
       => (last.err = "none" /\ has_index_names /\ index_names = {} /\ indexes = {})

\* C10: when the store's insert of block j fails in add_images, the failure
\* reaches the caller, the records of blocks 0..j-1 stay in the store, no
\* record of a block after j is submitted, no secondary index is created and
\* index_names is not updated.
C10_FailedBlockAborts ==
    [][(last'.op = "add_images" /\ last'.raised_in = "insert") =>
        LET j     == last'.fail
            bs    == last'.bs
            d     == last'.dir
            base  == IF last'.drop THEN <<>> ELSE store
            added == SubSeq(store', Len(base) + 1, Len(store'))
        IN  /\ last'.err = "StoreError"
            /\ Len(store') >= Len(base) + j * bs
            /\ SubSeq(store', 1, Len(base)) = base
            /\ \A i \in 1..(j * bs) : added[i].path = d[i]
            /\ \A i \in (Min((j + 1) * bs, Len(d)) + 1)..Len(d) :
                  \A n \in 1..Len(added) : added[n].path # d[i]
            /\ indexes' \subseteq indexes
            /\ has_index_names' = has_index_names
            /\ index_names' = index_names
      ]_vars

C10_Witness ==
    /\ last.op = "add_images"
    /\ last.raised_in = "insert"
    /\ last.fail >= 1
    /\ Len(last.dir) > (last.fail + 1) * last.bs
    /\ Len(store) >= last.fail * last.bs

====
